---- MODULE Spec2Model ----
(***************************************************************************)
(* Model of the marketing-intelligence frontend.                           *)
(*                                                                         *)
(* Spec: the configuration reconciler of AdminSettings.tsx: the local      *)
(* keywords / interval state, the 'admin-config' query and its sync        *)
(* effect, the addKeyword / removeKeyword / updateConfig handlers and the  *)
(* POST /admin/config requests they issue through apiRequest.              *)
(*                                                                         *)
(* SpecViews: the derived views: the analytics memos of AdminSettings.tsx  *)
(* (sentiment mix, industry ranking, risk distribution, correlation set)   *)
(* and the filtered and sorted feed of NewsFeed, computed from the fetched *)
(* news items, the selected time range and the clock.                      *)
(***************************************************************************)
EXTENDS Integers, Sequences, FiniteSets, TLC

VARIABLES
    keywords,          \* useState<string[]>([])               AdminSettings.tsx:36
    interval,          \* useState(60)                         AdminSettings.tsx:37
    newKeyword,        \* useState('')                         AdminSettings.tsx:38
    selectedIndustry,  \* useState('Electric Vehicle')         AdminSettings.tsx:27
    config,            \* data of the 'admin-config' query     AdminSettings.tsx:31
    fetch,             \* "sent" while a GET /admin/config is in flight
    remote,            \* the AdminConfig held by the remote collaborator
    posts,             \* the POST /admin/config requests in flight, oldest first
    issued,            \* number of POST requests issued so far
    alerts,            \* the alert() notices shown so far, oldest first
    hydrated,          \* history: the sync effect has copied remote -> local
    lastEdit           \* history: the keyword edit handled last

vars == <<keywords, interval, newKeyword, selectedIndustry, config, fetch,
          remote, posts, issued, alerts, hydrated, lastEdit>>

localVars == <<keywords, interval, newKeyword, selectedIndustry>>

----------------------------------------------------------------------------
(* Bounds of the model *)

\* POST requests issued in one run
MaxRequests == 2

\* longest local keyword list an add-keyword may produce
MaxKeywords == 3

(* Program constants *)

\* useState(60)
InitialInterval == 60

\* <input type="range" min="15" max="1440" step="15">
SliderMin == 15
SliderMax == 1440
SliderStep == 15

InitialIndustry == "Electric Vehicle"

AlertUpdated == "Config updated successfully"
AlertFailed == "Failed to update config"

----------------------------------------------------------------------------
(* Inputs *)

\* what the user types into the keyword input ('' is the cleared input)
InputValues == {"EV", "Solar", ""}

\* positions the user moves the range input to
SliderValues ==
    {v \in {45} : v >= SliderMin /\ v <= SliderMax /\ v % SliderStep = 0}

\* AdminConfig values the remote collaborator may hold when the page loads:
\* an empty list with an interval below the slider's range, a list of two,
\* a list with a duplicate
RemoteConfigs ==
    {[search_keywords |-> <<>>, scraping_interval_minutes |-> 5],
     [search_keywords |-> <<"EV", "Steel">>, scraping_interval_minutes |-> 30],
     [search_keywords |-> <<"Steel", "Steel">>, scraping_interval_minutes |-> 30]}

----------------------------------------------------------------------------
(* JavaScript values *)

\* an optional argument: <<>> is undefined, <<v>> is the value v
Undefined == <<>>
Some(v) == <<v>>

\* data of a query that has not resolved yet
NoConfig == [loaded |-> FALSE, search_keywords |-> <<>>,
             scraping_interval_minutes |-> 0]
Loaded(c) == [loaded |-> TRUE,
              search_keywords |-> c.search_keywords,
              scraping_interval_minutes |-> c.scraping_interval_minutes]

Elems(s) == {s[i] : i \in 1..Len(s)}

\* Array.prototype.includes
Includes(s, x) == x \in Elems(s)

\* Array.prototype.filter(k => k !== kw)
FilterOut(s, kw) == SelectSeq(s, LAMBDA k : k # kw)

NoDuplicates(s) == \A i, j \in 1..Len(s) : s[i] = s[j] => i = j

RemoveAt(s, i) == SubSeq(s, 1, i - 1) \o SubSeq(s, i + 1, Len(s))

----------------------------------------------------------------------------
(* History *)

\* op: the handler; kw: its keyword; before: the local keywords it started
\* from; accepted: it changed the list; afterAdd: the edit before it was an
\* accepted add-keyword of the same keyword
NoEdit == [op |-> "none", kw |-> "", before |-> <<>>, accepted |-> FALSE,
           afterAdd |-> FALSE]
Edit(op, kw, before, accepted) ==
    [op |-> op, kw |-> kw, before |-> before, accepted |-> accepted,
     afterAdd |-> lastEdit.op = "add" /\ lastEdit.accepted /\ lastEdit.kw = kw]

----------------------------------------------------------------------------
(* The 'admin-config' query and the sync effect *)

\* the component has mounted: state holds the useState initial values and the
\* query has started its first fetch
Init ==
    /\ keywords = <<>>
    /\ interval = InitialInterval
    /\ newKeyword = ""
    /\ selectedIndustry = InitialIndustry
    /\ config = NoConfig
    /\ fetch = "sent"
    /\ remote \in RemoteConfigs
    /\ posts = <<>>
    /\ issued = 0
    /\ alerts = <<>>
    /\ hydrated = FALSE
    /\ lastEdit = NoEdit

\* apiRequest throws (network error or !response.ok): the query keeps its data
FetchFailed ==
    /\ fetch = "sent"
    /\ fetch' = "idle"
    /\ UNCHANGED <<localVars, config, remote, posts, issued, alerts, hydrated,
                   lastEdit>>

\* if (config && keywords.length === 0)
ShouldHydrate(cfg, kws) == cfg.loaded /\ Len(kws) = 0

\* the body of useEffect(..., [config]), run with the state of the render
\* that saw the new config
SyncEffect(cfg) ==
    IF ShouldHydrate(cfg, keywords)
    THEN /\ keywords' = cfg.search_keywords
         /\ interval' = cfg.scraping_interval_minutes
         /\ selectedIndustry' = IF Len(cfg.search_keywords) > 0
                                THEN cfg.search_keywords[1]
                                ELSE selectedIndustry
         /\ hydrated' = TRUE
    ELSE UNCHANGED <<keywords, interval, selectedIndustry, hydrated>>

\* the GET resolves with what the remote collaborator holds: the query's data
\* becomes the response and the effect runs when the data changed (an equal
\* response keeps the previous data object, so [config] is unchanged)
FetchResolved ==
    /\ fetch = "sent"
    /\ config' = Loaded(remote)
    /\ fetch' = "idle"
    /\ IF Loaded(remote) # config
       THEN SyncEffect(Loaded(remote))
       ELSE UNCHANGED <<keywords, interval, selectedIndustry, hydrated>>
    /\ UNCHANGED <<newKeyword, remote, posts, issued, alerts, lastEdit>>

\* a refetch the query library starts by itself (window focus, remount)
RefetchConfig ==
    /\ fetch = "idle"
    /\ fetch' = "sent"
    /\ UNCHANGED <<localVars, config, remote, posts, issued, alerts, hydrated,
                   lastEdit>>

----------------------------------------------------------------------------
(* updateConfig and the handlers *)

\* variant: newKeywords?.length ? newKeywords : keywords
KeywordsOrElseNonEmpty(newKeywords, kws) ==
    IF newKeywords # Undefined /\ Len(newKeywords[1]) > 0
    THEN newKeywords[1] ELSE kws

\* newKeywords || keywords   (an array, even an empty one, is truthy)
KeywordsOrElse(newKeywords, kws) ==
    IF newKeywords # Undefined THEN newKeywords[1] ELSE kws

\* newInterval || interval   (0 is falsy)
IntervalOrElse(newInterval, iv) ==
    IF newInterval # Undefined /\ newInterval[1] # 0 THEN newInterval[1] ELSE iv

\* const payload = {...}
Payload(newKeywords, newInterval, kws, iv) ==
    [search_keywords |-> KeywordsOrElse(newKeywords, kws),
     scraping_interval_minutes |-> IntervalOrElse(newInterval, iv)]

\* a POST /admin/config in flight; manual is !newKeywords
Request(payload, manual) == [payload |-> payload, manual |-> manual]

\* updateConfig up to its await: the request leaves with the payload built
\* from the arguments and the state of the current render
UpdateConfigCall(newKeywords, newInterval) ==
    /\ issued < MaxRequests
    /\ posts' = Append(posts, Request(Payload(newKeywords, newInterval,
                                              keywords, interval),
                                      newKeywords = Undefined))
    /\ issued' = issued + 1

\* onChange of the keyword input
SetNewKeyword(s) ==
    /\ newKeyword' = s
    /\ UNCHANGED <<keywords, interval, selectedIndustry, config, fetch, remote,
                   posts, issued, alerts, hydrated, lastEdit>>

\* variant: if (newKeyword)
AddKeywordAcceptsNonEmpty(kw, kws) == kw # ""

\* if (newKeyword && !keywords.includes(newKeyword))
AddKeywordAccepts(kw, kws) == kw # "" /\ ~Includes(kws, kw)

\* variant: [newKeyword, ...keywords]
AddKeywordPrepended(kws, kw) == <<kw>> \o kws

\* [...keywords, newKeyword]
AddKeywordUpdated(kws, kw) == Append(kws, kw)

AddKeyword ==
    /\ IF AddKeywordAccepts(newKeyword, keywords)
       THEN /\ Len(keywords) < MaxKeywords
            /\ keywords' = AddKeywordUpdated(keywords, newKeyword)
            /\ newKeyword' = ""
            /\ UpdateConfigCall(Some(AddKeywordUpdated(keywords, newKeyword)),
                                Undefined)
       ELSE UNCHANGED <<keywords, newKeyword, posts, issued>>
    /\ lastEdit' = Edit("add", newKeyword, keywords,
                        AddKeywordAccepts(newKeyword, keywords))
    /\ UNCHANGED <<interval, selectedIndustry, config, fetch, remote, alerts,
                   hydrated>>

\* variant: keywords.filter(k => k === kw)
RemoveKeywordInverted(kws, kw) == SelectSeq(kws, LAMBDA k : k = kw)

\* keywords.filter(k => k !== kw)
RemoveKeywordUpdated(kws, kw) == FilterOut(kws, kw)

\* the X button of a displayed keyword
RemoveKeyword(kw) ==
    /\ Includes(keywords, kw)
    /\ keywords' = RemoveKeywordUpdated(keywords, kw)
    /\ UpdateConfigCall(Some(RemoveKeywordUpdated(keywords, kw)), Undefined)
    /\ lastEdit' = Edit("remove", kw, keywords, TRUE)
    /\ UNCHANGED <<interval, newKeyword, selectedIndustry, config, fetch,
                   remote, alerts, hydrated>>

\* onChange of the range input: setInterval(parseInt(e.target.value))
ChangeInterval(v) ==
    /\ interval' = v
    /\ UNCHANGED <<keywords, newKeyword, selectedIndustry, config, fetch,
                   remote, posts, issued, alerts, hydrated, lastEdit>>

\* the Update Settings button: updateConfig()
UpdateSettings ==
    /\ UpdateConfigCall(Undefined, Undefined)
    /\ UNCHANGED <<localVars, config, fetch, remote, alerts, hydrated, lastEdit>>

----------------------------------------------------------------------------
(* The POST in flight *)

\* the remote collaborator replaces its AdminConfig by the payload and the
\* await returns: invalidateQueries restarts the 'admin-config' fetch;
\* if (!newKeywords) alert('Config updated successfully')
PostSucceeded(i) ==
    /\ remote' = posts[i].payload
    /\ posts' = RemoveAt(posts, i)
    /\ fetch' = "sent"
    /\ alerts' = IF posts[i].manual THEN Append(alerts, AlertUpdated) ELSE alerts
    /\ UNCHANGED <<localVars, config, issued, hydrated, lastEdit>>

\* variant: the catch block also restores the keywords of the last fetched
\* config
PostFailedRollback(i) ==
    /\ posts' = RemoveAt(posts, i)
    /\ alerts' = Append(alerts, AlertFailed)
    /\ keywords' = config.search_keywords
    /\ UNCHANGED <<interval, newKeyword, selectedIndustry, config, fetch,
                   remote, issued, hydrated, lastEdit>>

\* apiRequest throws: catch (e) { alert('Failed to update config') }
PostFailed(i) ==
    /\ posts' = RemoveAt(posts, i)
    /\ alerts' = Append(alerts, AlertFailed)
    /\ UNCHANGED <<localVars, config, fetch, remote, issued, hydrated, lastEdit>>

----------------------------------------------------------------------------
(* State of the derived views *)

VARIABLES
    page,                   \* the mounted route: "admin" or "feed"     App.tsx:38
    now,                    \* new Date(), in hours since EpochYear began
    served,                 \* the news array the backend answers with  
    timeRange,              \* useState<TimeRange>('Monthly')  AdminSettings.tsx:28
    rawNews,                \* analyticsData.news || []        AdminSettings.tsx:100
    filteredSentimentData,  \* useMemo                         AdminSettings.tsx:103
    industryImpactData,     \* useMemo                         AdminSettings.tsx:130
    riskDistributionData,   \* useMemo                         AdminSettings.tsx:148
    scatterData,            \* useMemo                         AdminSettings.tsx:161
    feedTimeRange,          \* useState<TimeRange>('Monthly')  NewsFeed:29
    industryFilter,         \* useState('All')                 NewsFeed:27
    minScore,               \* useState(0)                     NewsFeed:28
    sortBy,                 \* useState('Latest')              NewsFeed:30
    news,                   \* data of the 'news' query        NewsFeed:32
    filteredAndSortedNews,  \* useMemo                         NewsFeed:37
    groupedNews,            \* useMemo                         NewsFeed:70
    activeTab,              \* useState('analytics')           AdminSettings.tsx:26
    fetching,               \* the query keys with a request in flight
    queryCache              \* the query client: query key -> fetched data

adminViewVars == <<timeRange, rawNews, filteredSentimentData,
                   industryImpactData, riskDistributionData, scatterData>>

feedViewVars == <<feedTimeRange, industryFilter, minScore, sortBy, news,
                  filteredAndSortedNews, groupedNews>>

queryVars == <<activeTab, fetching, queryCache>>

viewVars == <<page, now, served, adminViewVars, feedViewVars, queryVars>>

allVars == <<vars, viewVars>>

\* useState('Monthly'), in both components
InitialTimeRange == "Monthly"

\* no data has arrived: every memo is computed from the empty default
AdminViewsInit ==
    /\ timeRange = InitialTimeRange
    /\ rawNews = <<>>
    /\ filteredSentimentData = <<>>
    /\ industryImpactData = <<>>
    /\ riskDistributionData = <<>>
    /\ scatterData = <<>>

\* if (!news) return []
FeedViewsInit ==
    /\ feedTimeRange = InitialTimeRange
    /\ industryFilter = "All"
    /\ minScore = 0
    /\ sortBy = "Latest"
    /\ news = <<>>
    /\ filteredAndSortedNews = <<>>
    /\ groupedNews = <<>>

\* activeTab === 'ranking' ? 'All' : selectedIndustry
QueryIndustry(tab, industry) == IF tab = "ranking" THEN "All" ELSE industry

\* queryKey: ['admin-analytics', queryIndustry, timeRange]
AnalyticsKey(tab, industry, range) ==
    <<"admin-analytics", QueryIndustry(tab, industry), range>>

\* queryKey: ['news', industryFilter]
NewsKey(industry) == <<"news", industry>>

\* the mounted component has asked for the query of its initial key and the
\* query client holds nothing
QueriesInit ==
    /\ activeTab = "analytics"
    /\ fetching = IF page = "admin"
                  THEN {AnalyticsKey(activeTab, selectedIndustry, timeRange)}
                  ELSE {NewsKey(industryFilter)}
    /\ queryCache = <<>>

\* the views as Spec leaves them: mounted on the admin route, nothing fetched
ViewsIdle ==
    /\ page = "admin"
    /\ now = 0
    /\ served = <<>>
    /\ AdminViewsInit
    /\ FeedViewsInit
    /\ QueriesInit

----------------------------------------------------------------------------

\* one handler of AdminSettings' configuration tab per step; no step of the
\* reconciler touches the derived views
Next ==
    \/ FetchFailed /\ UNCHANGED viewVars
    \/ FetchResolved /\ UNCHANGED viewVars
    \/ RefetchConfig /\ UNCHANGED viewVars
    \/ (\E s \in InputValues : SetNewKeyword(s)) /\ UNCHANGED viewVars
    \/ AddKeyword /\ UNCHANGED viewVars
    \/ (\E kw \in Elems(keywords) : RemoveKeyword(kw)) /\ UNCHANGED viewVars
    \/ (\E v \in SliderValues : ChangeInterval(v)) /\ UNCHANGED viewVars
    \/ UpdateSettings /\ UNCHANGED viewVars
    \/ (\E i \in 1..Len(posts) : PostSucceeded(i)) /\ UNCHANGED viewVars
    \/ (\E i \in 1..Len(posts) : PostFailed(i)) /\ UNCHANGED viewVars

\* the component as mounted: configuration state constructed, views empty
Mounted == Init /\ ViewsIdle

\* the configuration reconciler; the derived views stay as mounted
Spec == Mounted /\ [][Next]_allVars

----------------------------------------------------------------------------
(* Steps of the handlers, as the claims name them *)

\* the step is the failure of a request in flight
PostFailedStep == \E i \in 1..Len(posts) : PostFailed(i)

\* the request issued last by the step
NewRequest == posts'[Len(posts')]

InRange(iv) == iv >= SliderMin /\ iv <= SliderMax

----------------------------------------------------------------------------
(* C1 *)

\* C1: once local config has been hydrated, no later refetch result changes
\* the local keywords or the local interval (also after the last keyword was
\* removed, and for a remote whose keyword list is empty).
C1_HydratedOnce ==
    [][(hydrated /\ FetchResolved) => UNCHANGED <<keywords, interval>>]_vars

(* C2 *)

\* C2: the first successful fetch copies the remote keywords and interval
\* into local state in every interleaving with local edits, also when an
\* add-keyword was issued while that fetch was in flight.
C2_FirstFetchHydrates ==
    [][(FetchResolved /\ ~config.loaded) =>
        (/\ keywords' = config'.search_keywords
         /\ interval' = config'.scraping_interval_minutes)]_vars

(* C3 *)

\* C3: in every reachable state the local keyword sequence has no duplicate
\* value, whatever the remote returned at hydration.
C3_NoDuplicateKeywords == NoDuplicates(keywords)

(* C4 *)

\* C4: add-keyword with an empty keyword, or with a keyword already in the
\* local sequence, is a no-op: local keywords, local interval and the pending
\* input are unchanged and no persistence request is issued.
C4_RejectedAddIsNoOp ==
    [][(AddKeyword /\ (newKeyword = "" \/ Includes(keywords, newKeyword))) =>
        UNCHANGED <<keywords, interval, newKeyword, posts, issued>>]_vars

\* a duplicate was rejected: the handler ran, the keyword is in the list and
\* still pending in the input
C4_Witness ==
    /\ lastEdit.op = "add"
    /\ ~lastEdit.accepted
    /\ lastEdit.kw # ""
    /\ newKeyword = lastEdit.kw
    /\ Includes(keywords, lastEdit.kw)
    /\ keywords = lastEdit.before

(* C5 *)

\* C5: add-keyword with a non-empty keyword not yet present appends it as the
\* last element, keeps the existing keywords in their order, and issues
\* exactly one persistence request whose keyword list is the new sequence.
C5_AcceptedAddAppends ==
    [][(AddKeyword /\ newKeyword # "" /\ ~Includes(keywords, newKeyword)) =>
        (/\ Len(keywords') = Len(keywords) + 1
         /\ keywords'[Len(keywords')] = newKeyword
         /\ SubSeq(keywords', 1, Len(keywords)) = keywords
         /\ issued' = issued + 1
         /\ Len(posts') = Len(posts) + 1
         /\ SubSeq(posts', 1, Len(posts)) = posts
         /\ NewRequest.payload.search_keywords = keywords')]_vars

\* a third keyword was appended to a list of two and its request is in flight
C5_Witness ==
    /\ lastEdit.op = "add"
    /\ lastEdit.accepted
    /\ Len(lastEdit.before) = 2
    /\ keywords = Append(lastEdit.before, lastEdit.kw)
    /\ Len(posts) > 0
    /\ posts[Len(posts)].payload.search_keywords = keywords

(* C6 *)

\* C6: round trip: for every keyword sequence K and every non-empty keyword k
\* not in K, add-keyword(k) followed by remove-keyword(k) leaves the local
\* keyword sequence equal to K.
C6_AddRemoveRoundTrip ==
    [][\A kw \in Elems(keywords) :
        (/\ RemoveKeyword(kw)
         /\ lastEdit.op = "add"
         /\ lastEdit.accepted
         /\ lastEdit.kw = kw) => keywords' = lastEdit.before]_vars

\* a keyword added to a list of two was removed again
C6_Witness ==
    /\ lastEdit.op = "remove"
    /\ lastEdit.afterAdd
    /\ Len(lastEdit.before) = 3
    /\ Len(keywords) = 2
    /\ keywords = SubSeq(lastEdit.before, 1, 2)

(* C7 *)

\* C7: remove-keyword(k) removes exactly the elements equal to k and keeps the
\* others in their order; removing the only remaining keyword leaves the
\* local sequence empty, and (once hydrated) it stays empty until the next
\* add-keyword: no other event repopulates it.
C7_RemoveThenStaysEmpty ==
    [][/\ \A kw \in Elems(keywords) :
            RemoveKeyword(kw) => keywords' = FilterOut(keywords, kw)
       /\ (/\ hydrated
           /\ lastEdit.op = "remove"
           /\ keywords = <<>>
           /\ keywords' # <<>>) => AddKeyword]_vars

(* C8 *)

\* C8: every persistence request issued by add-keyword, remove-keyword or
\* Update Settings carries the pair {search_keywords,
\* scraping_interval_minutes} equal to the local keywords and interval as they
\* stand after the edit; an empty list is sent as empty. (Only these three
\* handlers issue requests: a step that issues one is a step of theirs.)
C8_RequestCarriesLocalPair ==
    [][(issued' # issued) =>
        (/\ Len(posts') = Len(posts) + 1
         /\ NewRequest.payload =
              [search_keywords |-> keywords',
               scraping_interval_minutes |-> interval'])]_vars

\* the last keyword was removed and the request in flight carries the empty
\* list
C8_Witness ==
    /\ lastEdit.op = "remove"
    /\ lastEdit.before # <<>>
    /\ keywords = <<>>
    /\ Len(posts) > 0
    /\ posts[Len(posts)].payload =
         [search_keywords |-> <<>>, scraping_interval_minutes |-> interval]

(* C9 *)

\* C9: when the persistence request of an add-keyword or remove-keyword
\* fails, the optimistic local change is kept (the failure leaves the local
\* keywords and interval as they were), the failure is reported once, and no
\* retry request is issued.
C9_FailureKeepsOptimisticEdit ==
    [][PostFailedStep =>
        (/\ UNCHANGED <<keywords, interval, newKeyword>>
         /\ alerts' = Append(alerts, AlertFailed)
         /\ issued' = issued
         /\ Len(posts') = Len(posts) - 1
         /\ UNCHANGED <<fetch, remote>>)]_vars

\* the only request, that of an accepted add-keyword, has failed: the keyword
\* is still in the local list and the remote does not have it
C9_Witness ==
    /\ alerts = <<AlertFailed>>
    /\ issued = 1
    /\ posts = <<>>
    /\ lastEdit.op = "add"
    /\ lastEdit.accepted
    /\ keywords = Append(lastEdit.before, lastEdit.kw)
    /\ remote.search_keywords # keywords

(* C10 *)

\* C10: in every reachable state the local scraping interval is between 15
\* and 1440 inclusive, and every persistence request carries an interval in
\* that range, whatever the remote returned at hydration.
C10_IntervalInRange ==
    /\ InRange(interval)
    /\ \A i \in 1..Len(posts) : InRange(posts[i].payload.scraping_interval_minutes)


----------------------------------------------------------------------------
(***************************************************************************)
(* The derived views                                                       *)
(*                                                                         *)
(* Dates.  A Date is an instant: its getTime(), counted in hours since the *)
(* start of EpochYear.  An ISO string is written as its local calendar     *)
(* fields <<y, m, d, h>>.  The date-fns helpers are modelled by what they  *)
(* do to the instant (time zone and daylight saving left out).             *)
(***************************************************************************)

EpochYear == 2020

IsLeapYear(y) == (y % 4 = 0 /\ y % 100 # 0) \/ y % 400 = 0

DaysInMonth(y, m) ==
    IF m = 2 THEN (IF IsLeapYear(y) THEN 29 ELSE 28)
    ELSE IF m \in {4, 6, 9, 11} THEN 30 ELSE 31

RECURSIVE DaysBeforeMonth(_, _)
DaysBeforeMonth(y, m) ==
    IF m = 1 THEN 0 ELSE DaysBeforeMonth(y, m - 1) + DaysInMonth(y, m - 1)

RECURSIVE DaysBeforeYear(_)
DaysBeforeYear(y) ==
    IF y = EpochYear THEN 0
    ELSE DaysBeforeYear(y - 1) + (IF IsLeapYear(y - 1) THEN 366 ELSE 365)

DaysInYear(y) == IF IsLeapYear(y) THEN 366 ELSE 365

\* the instant of local calendar fields <<y, m, d, h>>
FromFields(f) ==
    (DaysBeforeYear(f[1]) + DaysBeforeMonth(f[1], f[2]) + f[3] - 1) * 24 + f[4]

RECURSIVE YearOf(_, _)
YearOf(days, y) ==
    IF days < DaysInYear(y) THEN <<y, days>> ELSE YearOf(days - DaysInYear(y), y + 1)

RECURSIVE MonthOf(_, _, _)
MonthOf(y, m, days) ==
    IF days < DaysInMonth(y, m) THEN <<m, days + 1>>
    ELSE MonthOf(y, m + 1, days - DaysInMonth(y, m))

\* getFullYear, getMonth() + 1, getDate, getHours of a Date
Fields(date) ==
    LET yd == YearOf(date \div 24, EpochYear)
        md == MonthOf(yd[1], 1, yd[2])
    IN  <<yd[1], md[1], md[2], date % 24>>

\* parseISO: the Date of an ISO string, here the string's calendar fields
ParseISO(iso) == FromFields(iso)

\* date-fns subDays(date, n) == addDays(date, -n): setDate(getDate() - n)
SubDays(date, n) == date - n * 24

\* date-fns subHours(date, n) == addMilliseconds(date, -n * 3600000)
SubHours(date, n) == date - n

\* date-fns subMonths(date, n) == addMonths(date, -n): the same day of the
\* month n months earlier, or the last day of that month when it is shorter;
\* the time of day is kept
SubMonths(date, n) ==
    LET f == Fields(date)
        months == f[1] * 12 + (f[2] - 1) - n
        ty == months \div 12
        tm == (months % 12) + 1
        daysInMonth == DaysInMonth(ty, tm)
    IN  IF f[3] >= daysInMonth THEN FromFields(<<ty, tm, daysInMonth, f[4]>>)
        ELSE FromFields(<<ty, tm, f[3], f[4]>>)

\* date-fns subYears(date, n) == addYears(date, -n) == addMonths(date, -12 n)
SubYears(date, n) == SubMonths(date, 12 * n)

\* date-fns startOfDay: setHours(0, 0, 0, 0)
StartOfDay(date) == date - (date % 24)

IsAfterOrEqual(date, dateToCompare) == date >= dateToCompare

\* date-fns isAfter: date.getTime() > dateToCompare.getTime()
IsAfter(date, dateToCompare) == date > dateToCompare

----------------------------------------------------------------------------
(* News items: the records of GET /admin/analytics and GET /news.  An      *)
(* optional field is Undefined or Some(v).                                 *)

Titles == <<"n1", "n2", "n3", "n4", "n5", "n6", "n7", "n8", "n9", "n10", "n11">>

NewsItem(id, sentiment, impact, urgency, risk, tag, published, created) ==
    [id |-> id, title |-> Titles[id], sentiment_score |-> sentiment,
     impact_score |-> impact, urgency |-> urgency, risk_type |-> risk,
     industry_tag |-> tag, published_at |-> published, created_at |-> created]

\* the clock readings new Date() is drawn from
NowValues == {<<2024, 3, 31, 12>>, <<2024, 3, 29, 12>>}

\* timestamps at and one hour after the Weekly, Monthly, Quarterly and
\* Yearly cutoffs of 2024-03-31T12
AtWeek      == <<2024, 3, 24, 12>>
AfterWeek   == <<2024, 3, 24, 13>>
AtMonth     == <<2024, 2, 29, 12>>
AfterMonth  == <<2024, 2, 29, 13>>
AtQuarter   == <<2023, 12, 31, 12>>
AfterQuarter == <<2023, 12, 31, 13>>
AtYear      == <<2023, 3, 31, 12>>
AfterYear   == <<2023, 3, 31, 13>>

\* timestamps around 2024-03-31T12: earlier the same day, the evening
\* before (within 24 hours, before midnight), and five days ahead
EarlierToday == <<2024, 3, 31, 6>>
LastEvening  == <<2024, 3, 30, 18>>
DaysAhead    == <<2024, 4, 5, 12>>

\* the records a response is built from: scores at and around the bucket
\* boundaries, listed and unlisted risk types and urgencies, absent fields,
\* tags that are canonical array indices, timestamps at and after cutoffs,
\* of today, of yesterday and of a day to come
ItemPool ==
    { NewsItem(1, Some(8), Some(8),  Some("High"),     Some("Policy"),       Some("EV"),    Undefined,    AfterWeek),
      NewsItem(2, Some(3), Some(6),  Some("Medium"),   Some("Cyber"),        Some("EV"),    Undefined,    AtWeek),
      NewsItem(3, Some(7), Some(7),  Some("Low"),      Undefined,            Undefined,     Undefined,    AfterMonth),
      NewsItem(4, Some(4), Some(7),  Undefined,        Some("None"),         Some("7"),     Undefined,    AtMonth),
      NewsItem(5, Undefined, Undefined, Some("Critical"), Some("Supply Chain"), Some("Solar"), Undefined, AfterQuarter),
      NewsItem(6, Some(5), Some(10), Some("High"),     Some(""),             Some("42"),    Undefined,    AtQuarter),
      NewsItem(7, Some(8), Some(0),  Some("Low"),      Some("Competition"),  Some("Solar"), Some(AtYear), AfterYear),
      NewsItem(8, Some(3), Some(7),  Some("Medium"),   Some("Financial"),    Some("EV"),    Undefined,    LastEvening),
      NewsItem(9, Some(8), Some(7),  Some("High"),     Some("Other"),        Some("EV"),    Undefined,    AtYear),
      NewsItem(10, Some(5), Some(5), Some("Low"),      Some("Policy"),       Some("Solar"), Undefined,    EarlierToday),
      NewsItem(11, Some(5), Some(6), Some("Medium"),   Some("Policy"),       Some("EV"),    Undefined,    DaysAhead) }

PoolItem(id) == CHOOSE item \in ItemPool : item.id = id

MaxItems == 2

RunLength == 19

RECURSIVE SeqsUpTo(_, _)
SeqsUpTo(S, n) ==
    IF n = 0 THEN {<<>>}
    ELSE LET shorter == SeqsUpTo(S, n - 1)
         IN  shorter \cup {Append(q, x) : q \in {r \in shorter : Len(r) = n - 1}, x \in S}

Repeat(item, n) == [i \in 1..n |-> item]

\* the scenarios of three items: sentiment scores 8, 3, 7 with risk types
\* Policy, Cyber, absent; sentiment scores 8, 3, 5; impact scores 7, 8, 7;
\* impact scores 7, 7, 7 stamped in February, yesterday evening, February
Scenarios ==
    { <<PoolItem(1), PoolItem(2), PoolItem(3)>>,
      <<PoolItem(1), PoolItem(2), PoolItem(6)>>,
      <<PoolItem(3), PoolItem(1), PoolItem(4)>>,
      <<PoolItem(3), PoolItem(8), PoolItem(4)>> }

\* the arrays a response carries: every short array over the pool, the
\* scenarios, and long runs of one industry (RunLength items of score 7,
\* then one more item)
NewsInputs ==
    SeqsUpTo(ItemPool, MaxItems)
        \cup Scenarios
        \cup {Append(Repeat(PoolItem(9), RunLength), PoolItem(id)) : id \in {1, 8}}

----------------------------------------------------------------------------
(* JavaScript values used by the memos *)

\* a || b for an optional string: undefined and '' are falsy
StringOrElse(opt, default) ==
    IF opt = Undefined \/ opt = Some("") THEN default ELSE opt[1]

\* a Number: NaN, or a value (sums in units, means in tenths)
NaN == [nan |-> TRUE, val |-> 0]
Num(v) == [nan |-> FALSE, val |-> v]

\* a + b with b possibly undefined: ToNumber(undefined) is NaN, NaN absorbs
Plus(a, opt) == IF a.nan \/ opt = Undefined THEN NaN ELSE Num(a.val + opt[1])

Count(seq, Test(_)) == Len(SelectSeq(seq, Test))

RECURSIVE Sum(_)
Sum(seq) == IF seq = <<>> THEN 0 ELSE seq[1] + Sum(Tail(seq))

----------------------------------------------------------------------------
(* The time window *)

\* the ranges of either TimeRange type
TimeRanges == {"Daily", "Weekly", "Monthly", "Quarterly", "Yearly"}

\* the range buttons of both components
RangeButtons == {"Daily", "Weekly", "Monthly", "Yearly"}

\* switch (timeRange) of filteredSentimentData
AnalyticsStartDate(range, date) ==
    CASE range = "Daily"   -> SubHours(date, 24)
      [] range = "Weekly"  -> SubDays(date, 7)
      [] range = "Monthly" -> SubMonths(date, 1)
      [] range = "Yearly"  -> SubYears(date, 1)
      [] OTHER             -> SubMonths(date, 1)

\* switch (timeRange) of filteredAndSortedNews
FeedStartDate(range, date) ==
    CASE range = "Daily"     -> StartOfDay(date)
      [] range = "Weekly"    -> SubDays(date, 7)
      [] range = "Monthly"   -> SubMonths(date, 1)
      [] range = "Quarterly" -> SubMonths(date, 3)
      [] range = "Yearly"    -> SubYears(date, 1)
      [] OTHER               -> SubMonths(date, 1)

\* item.published_at || item.created_at
AnalyticsTimestamp(item) ==
    IF item.published_at # Undefined THEN item.published_at[1] ELSE item.created_at

\* rawNews.filter(item => isAfter(parseISO(...), startDate))
WindowFiltered(items, range, date) ==
    LET startDate == AnalyticsStartDate(range, date)
    IN  SelectSeq(items, LAMBDA item :
            IsAfter(ParseISO(AnalyticsTimestamp(item)), startDate))

----------------------------------------------------------------------------
(* SentimentMix: filteredSentimentData *)

PositiveAbove == 7
RiskBelow == 4

SentimentBucketInclusive(item) ==
    IF item.sentiment_score # Undefined /\ item.sentiment_score[1] >= PositiveAbove
    THEN "Positive"
    ELSE IF item.sentiment_score # Undefined /\ item.sentiment_score[1] <= RiskBelow
    THEN "Risk"
    ELSE "Neutral"

\* undefined > 7 and undefined < 4 are both false: the else branch
SentimentBucket(item) ==
    IF item.sentiment_score # Undefined /\ item.sentiment_score[1] > PositiveAbove
    THEN "Positive"
    ELSE IF item.sentiment_score # Undefined /\ item.sentiment_score[1] < RiskBelow
    THEN "Risk"
    ELSE "Neutral"

\* Object.values(counts): the keys in insertion order
SentimentCounts(filtered) ==
    LET value(name) == Count(filtered, LAMBDA item : SentimentBucket(item) = name)
    IN  << [name |-> "Positive", value |-> value("Positive"), color |-> "#10b981"],
           [name |-> "Neutral",  value |-> value("Neutral"),  color |-> "#f59e0b"],
           [name |-> "Risk",     value |-> value("Risk"),     color |-> "#ef4444"] >>

FilteredSentimentData(items, range, date) ==
    SelectSeq(SentimentCounts(WindowFiltered(items, range, date)),
              LAMBDA c : c.value > 0)

----------------------------------------------------------------------------
(* RiskDistribution: riskDistributionData *)

risks == <<"Policy", "Competition", "Supply Chain", "Financial", "Other", "None">>

RiskCategoryUnlistedKept(item) == StringOrElse(item.risk_type, "None")

\* r = item.risk_type || 'None'; the entry named r, or else the entry 'Other'
RiskCategory(item) ==
    LET r == StringOrElse(item.risk_type, "None")
    IN  IF Includes(risks, r) THEN r ELSE "Other"

RiskCounts(items) ==
    [i \in 1..Len(risks) |->
        [name |-> risks[i],
         count |-> Count(items, LAMBDA item : RiskCategory(item) = risks[i])]]

RiskDistributionData(items) == SelectSeq(RiskCounts(items), LAMBDA c : c.count > 0)

----------------------------------------------------------------------------
(* CorrelationSet: scatterData *)

UrgencyWeight(urgency) ==
    IF urgency = Some("High") THEN 3 ELSE IF urgency = Some("Medium") THEN 2 ELSE 1

ScatterData(items) ==
    [i \in 1..Len(items) |->
        [impact |-> items[i].impact_score,
         urgency |-> UrgencyWeight(items[i].urgency),
         title |-> items[i].title,
         id |-> items[i].id]]

----------------------------------------------------------------------------
(* IndustryRanking: industryImpactData *)

\* tag = item.industry_tag || 'General'
Tag(item) == StringOrElse(item.industry_tag, "General")

GroupIndex(aggregation, tag) ==
    IF \E i \in 1..Len(aggregation) : aggregation[i].name = tag
    THEN CHOOSE i \in 1..Len(aggregation) : aggregation[i].name = tag
    ELSE 0

\* the body of rawNews.forEach: create the group on first sight, then
\* score += item.impact_score and count += 1, whatever impact_score is
AggregateItem(aggregation, item) ==
    LET tag == Tag(item)
        created == IF GroupIndex(aggregation, tag) = 0
                   THEN Append(aggregation, [name |-> tag, score |-> Num(0), count |-> 0])
                   ELSE aggregation
        i == GroupIndex(created, tag)
    IN  [created EXCEPT ![i].score = Plus(@, item.impact_score),
                        ![i].count = @ + 1]

\* the aggregation object, its keys in the order they were created
RECURSIVE Aggregate(_)
Aggregate(items) ==
    IF items = <<>> THEN <<>>
    ELSE AggregateItem(Aggregate(SubSeq(items, 1, Len(items) - 1)), items[Len(items)])

\* a property key that is a canonical array index ('7', '42'), as a number
ArrayIndex(key) ==
    CASE key = "7"  -> Some(7)
      [] key = "42" -> Some(42)
      [] OTHER      -> Undefined

\* Object.values: the array-index keys first, in ascending numeric order,
\* then the other string keys in the order they were created
ObjectValues(aggregation) ==
    LET indexed == SelectSeq(aggregation, LAMBDA g : ArrayIndex(g.name) # Undefined)
        others  == SelectSeq(aggregation, LAMBDA g : ArrayIndex(g.name) = Undefined)
        rank(g) == Cardinality({j \in 1..Len(indexed) :
                        ArrayIndex(indexed[j].name)[1] <= ArrayIndex(g.name)[1]})
        ascending == [k \in 1..Len(indexed) |->
                        indexed[CHOOSE j \in 1..Len(indexed) : rank(indexed[j]) = k]]
    IN  ascending \o others

\* the place of the scaled quotient u/5 in the 53-bit significand: the k with
\* 2^k <= u/5 < 2^(k+1)
BinaryExponent(u) ==
    CHOOSE k \in -3..8 :
        IF k >= 0 THEN 5 * 2^k <= u /\ u < 5 * 2^(k + 1)
        ELSE 5 <= u * 2^(-k) /\ u * 2^(-k) < 10

\* 2^e mod 5, of period 4
Pow2Mod5(e) == <<1, 2, 4, 3>>[(e % 4) + 1]

\* whether the double nearest to u/20 (u odd, not a multiple of 5) lies above
\* u/20: the 53-bit significand is u * 2^e / 5 rounded to an integer, with
\* e == 52 - BinaryExponent(u), and rounds up iff its remainder mod 5 is 3 or 4
DoubleAbove(u) ==
    ((u % 5) * Pow2Mod5(52 - BinaryExponent(u))) % 5 \in {3, 4}

\* round half up of sum / count to tenths, in exact arithmetic
RoundHalfUpTenths(sum, count) == (20 * sum + count) \div (2 * count)

\* (sum / count).toFixed(1), in tenths.  The quotient is first rounded to a
\* double; toFixed then picks the n with n / 10 nearest to that double, the
\* larger n on a tie.  Off a midpoint of tenths the double rounds as the
\* exact quotient does.  On a midpoint u/20 the double is exact when 5
\* divides u (a tie: the larger n), and otherwise lies above or below it.
ToFixed1(sum, count) ==
    LET floor == (10 * sum) \div count
        twice == 20 * sum - 2 * floor * count
        u == 2 * floor + 1
    IN  IF twice < count THEN floor
        ELSE IF twice > count THEN floor + 1
        ELSE IF u % 5 = 0 \/ DoubleAbove(u) THEN floor + 1
        ELSE floor

\* parseFloat((item.score / item.count).toFixed(1)): NaN / count is NaN,
\* NaN.toFixed(1) is 'NaN', parseFloat('NaN') is NaN
MeanScore(group) ==
    IF group.score.nan THEN NaN ELSE Num(ToFixed1(group.score.val, group.count))

InsertDescendingBeforeEqual(sorted, entry) ==
    LET pos == Cardinality({i \in 1..Len(sorted) :
                    sorted[i].score.val > entry.score.val})
    IN  SubSeq(sorted, 1, pos) \o <<entry>> \o SubSeq(sorted, pos + 1, Len(sorted))

\* sort((a, b) => b.score - a.score) of comparable scores: descending, and
\* stable (entries the comparator calls equal keep their order)
InsertDescending(sorted, entry) ==
    LET pos == Cardinality({i \in 1..Len(sorted) :
                    sorted[i].score.val >= entry.score.val})
    IN  SubSeq(sorted, 1, pos) \o <<entry>> \o SubSeq(sorted, pos + 1, Len(sorted))

RECURSIVE SortDescending(_)
SortDescending(entries) ==
    IF entries = <<>> THEN <<>>
    ELSE InsertDescending(SortDescending(SubSeq(entries, 1, Len(entries) - 1)),
                          entries[Len(entries)])

PermutationsOf(seq) ==
    {[i \in 1..Len(seq) |-> seq[p[i]]] : p \in Permutations(1..Len(seq))}

\* the arrays sort may return.  b.score - a.score is NaN when either score
\* is, which sort reads as +0 (equal).  With a NaN score and two different
\* other scores the comparator is not consistent and the order is
\* implementation-defined; with a NaN score and no two different other
\* scores every comparison is equal and the order is kept.
SortOutcomes(entries) ==
    LET nans == {i \in 1..Len(entries) : entries[i].score.nan}
        vals == {entries[i].score.val : i \in (1..Len(entries)) \ nans}
    IN  IF nans = {} THEN {SortDescending(entries)}
        ELSE IF Cardinality(vals) <= 1 THEN {entries}
        ELSE PermutationsOf(entries)

\* Object.values(aggregation).map(...), before the sort
ImpactEntries(items) ==
    LET values == ObjectValues(Aggregate(items))
    IN  [i \in 1..Len(values) |->
            [name |-> values[i].name, score |-> MeanScore(values[i])]]

IndustryImpactOutcomes(items) == SortOutcomes(ImpactEntries(items))

----------------------------------------------------------------------------
(* The feed: filteredAndSortedNews *)

\* news.filter(...): the time window, the industry and the minimum score;
\* undefined >= minScore is false
FeedFiltered(items, range, date, industry, score) ==
    LET startDate == FeedStartDate(range, date)
    IN  SelectSeq(items, LAMBDA item :
            /\ IsAfter(ParseISO(item.created_at), startDate)
            /\ (industry = "All" \/ item.industry_tag = Some(industry))
            /\ item.impact_score # Undefined
            /\ item.impact_score[1] >= score)

\* filtered.sort(...): descending by created_at or by impact_score, stable
FeedSorted(filtered, mode) ==
    LET keyed == [i \in 1..Len(filtered) |->
                    [item |-> filtered[i],
                     score |-> Num(IF mode = "Latest"
                                   THEN ParseISO(filtered[i].created_at)
                                   ELSE filtered[i].impact_score[1])]]
        sorted == SortDescending(keyed)
    IN  [i \in 1..Len(sorted) |-> sorted[i].item]

FilteredAndSortedNews(items, range, date, industry, score, mode) ==
    FeedSorted(FeedFiltered(items, range, date, industry, score), mode)

\* sort called on the fetched array itself
FeedMemoRunSortingNews(items, range, date, industry, score, mode) ==
    [news |-> FeedSorted(items, mode),
     filtered |-> FilteredAndSortedNews(items, range, date, industry, score, mode)]

\* one run of the memo over the array held in news: filter returns a new
\* array, sort reorders the array it is called on (that new array) and
\* returns it; the array held in news is as it was
FeedMemoRun(items, range, date, industry, score, mode) ==
    [news |-> items,
     filtered |-> FilteredAndSortedNews(items, range, date, industry, score, mode)]

----------------------------------------------------------------------------
(* The feed: groupedNews *)

MonthNames == <<"January", "February", "March", "April", "May", "June", "July",
                "August", "September", "October", "November", "December">>

\* date-fns format(date, 'MMMM yyyy')
FormatMonthYear(date) ==
    MonthNames[Fields(date)[2]] \o " " \o ToString(Fields(date)[1])

\* date-fns isToday / isYesterday: the same calendar day as now / as the
\* day before now
IsToday(date, today) == StartOfDay(date) = StartOfDay(today)
IsYesterday(date, today) == StartOfDay(date) = StartOfDay(SubDays(today, 1))

\* the if / else if chain of groupedNews
GroupLabel(date, today) ==
    IF IsToday(date, today) THEN "Today"
    ELSE IF IsYesterday(date, today) THEN "Yesterday"
    ELSE IF IsAfter(date, SubDays(today, 7)) THEN "This Week"
    ELSE FormatMonthYear(date)

GroupItemPrepending(groups, item, today) ==
    LET label == GroupLabel(ParseISO(item.created_at), today)
        created == IF GroupIndex(groups, label) = 0
                   THEN Append(groups, [name |-> label, items |-> <<>>])
                   ELSE groups
        i == GroupIndex(created, label)
    IN  [created EXCEPT ![i].items = <<item>> \o @]

GroupItemNewGroupFirst(groups, item, today) ==
    LET label == GroupLabel(ParseISO(item.created_at), today)
        created == IF GroupIndex(groups, label) = 0
                   THEN <<[name |-> label, items |-> <<>>]>> \o groups
                   ELSE groups
        i == GroupIndex(created, label)
    IN  [created EXCEPT ![i].items = Append(@, item)]

\* the body of filteredAndSortedNews.forEach: create the group on first
\* sight of its label, then push the item
GroupItem(groups, item, today) ==
    LET label == GroupLabel(ParseISO(item.created_at), today)
        created == IF GroupIndex(groups, label) = 0
                   THEN Append(groups, [name |-> label, items |-> <<>>])
                   ELSE groups
        i == GroupIndex(created, label)
    IN  [created EXCEPT ![i].items = Append(@, item)]

\* the groups object, its keys in the order they were created
RECURSIVE GroupedNews(_, _)
GroupedNews(sorted, today) ==
    IF sorted = <<>> THEN <<>>
    ELSE GroupItem(GroupedNews(SubSeq(sorted, 1, Len(sorted) - 1), today),
                   sorted[Len(sorted)], today)

\* Object.entries(groupedNews).map: the groups in the order rendered
RenderedGroups(groups) == ObjectValues(groups)

----------------------------------------------------------------------------
(* SpecViews: the views of one mounted route over one served collection *)

\* every memo of AdminSettings recomputed, from the new rawNews and timeRange
AdminMemos(items, range) ==
    /\ filteredSentimentData' = FilteredSentimentData(items, range, now)
    /\ industryImpactData' \in IndustryImpactOutcomes(items)
    /\ riskDistributionData' = RiskDistributionData(items)
    /\ scatterData' = ScatterData(items)

\* the memos of NewsFeed recomputed, from the new news, time range and sort
\* mode; news is the fetched array as the run leaves it
FeedMemo(items, range, mode) ==
    LET run == FeedMemoRun(items, range, now, industryFilter, minScore, mode)
    IN  /\ news' = run.news
        /\ filteredAndSortedNews' = run.filtered
        /\ groupedNews' = GroupedNews(run.filtered, now)

InitViews ==
    /\ Init
    /\ remote = [search_keywords |-> <<>>, scraping_interval_minutes |-> 5]
    /\ page \in {"admin", "feed"}
    /\ now \in {ParseISO(iso) : iso \in NowValues}
    /\ served \in NewsInputs
    /\ AdminViewsInit
    /\ FeedViewsInit
    /\ QueriesInit

\* GET /admin/analytics answers: analyticsData.news is the served array
AnalyticsResolved ==
    /\ page = "admin"
    /\ rawNews' = served
    /\ AdminMemos(served, timeRange)
    /\ UNCHANGED <<vars, page, now, served, queryVars, timeRange, feedViewVars>>

\* a range button of the analytics tab: the query key changes, so the data
\* is the default { news: [] } until the new request answers
SetTimeRange(range) ==
    /\ page = "admin"
    /\ range # timeRange
    /\ timeRange' = range
    /\ rawNews' = <<>>
    /\ AdminMemos(<<>>, range)
    /\ UNCHANGED <<vars, page, now, served, queryVars, feedViewVars>>

\* GET /news answers
NewsResolved ==
    /\ page = "feed"
    /\ FeedMemo(served, feedTimeRange, sortBy)
    /\ UNCHANGED <<vars, page, now, served, queryVars, adminViewVars, feedTimeRange,
                   industryFilter, minScore, sortBy>>

\* a range button of the feed: the query key ['news', industryFilter] is
\* unchanged, only the memo is recomputed
SetFeedTimeRange(range) ==
    /\ page = "feed"
    /\ range # feedTimeRange
    /\ feedTimeRange' = range
    /\ FeedMemo(news, range, sortBy)
    /\ UNCHANGED <<vars, page, now, served, queryVars, adminViewVars, industryFilter,
                   minScore, sortBy>>

SortModes == {"Latest", "Highest Impact"}

\* the sort select of the feed
SetSortBy(mode) ==
    /\ page = "feed"
    /\ mode # sortBy
    /\ sortBy' = mode
    /\ FeedMemo(news, feedTimeRange, mode)
    /\ UNCHANGED <<vars, page, now, served, queryVars, adminViewVars, feedTimeRange,
                   industryFilter, minScore>>

NextViews ==
    \/ AnalyticsResolved
    \/ \E range \in RangeButtons : SetTimeRange(range)
    \/ NewsResolved
    \/ \E range \in RangeButtons : SetFeedTimeRange(range)
    \/ \E mode \in SortModes : SetSortBy(mode)

SpecViews == InitViews /\ [][NextViews]_allVars

----------------------------------------------------------------------------
(***************************************************************************)
(* Properties of the derived views (SpecViews)                             *)
(***************************************************************************)

Now1 == ParseISO(<<2024, 3, 31, 12>>)

HasSentiment(item) == item.sentiment_score # Undefined

HasImpact(item) == item.impact_score # Undefined

\* the items of rawNews the selected window lets through
Windowed == WindowFiltered(rawNews, timeRange, now)

\* the count a list of {name, value} or {name, count} entries shows for a
\* name: 0 when the entry was dropped
ValueOf(data, name) ==
    IF \E i \in 1..Len(data) : data[i].name = name
    THEN (LET i == CHOOSE i \in 1..Len(data) : data[i].name = name IN data[i].value)
    ELSE 0

CountOf(data, name) ==
    IF \E i \in 1..Len(data) : data[i].name = name
    THEN (LET i == CHOOSE i \in 1..Len(data) : data[i].name = name IN data[i].count)
    ELSE 0

Names(data) == [i \in 1..Len(data) |-> data[i].name]

\* seq lists some of the elements of order, each once, in order's order
InOrderOf(seq, order) ==
    \E pick \in SUBSET (1..Len(order)) :
        seq = SelectSeq(order, LAMBDA x :
                \E i \in pick : order[i] = x)

(* C11 *)

\* C11: for every set of news items, the SentimentMix bucket counts are
\* non-negative and sum to the number of time-window-filtered items that
\* have a defined sentiment_score; an item with no sentiment_score
\* increments no bucket.
C11_SentimentCountsDefinedScores ==
    /\ \A i \in 1..Len(filteredSentimentData) : filteredSentimentData[i].value >= 0
    /\ Sum([i \in 1..Len(filteredSentimentData) |-> filteredSentimentData[i].value])
          = Count(Windowed, HasSentiment)

(* C12 *)

SentimentOrder == <<"Positive", "Neutral", "Risk">>

\* C12: each item with a defined sentiment_score s is counted in exactly one
\* bucket: Positive if s > 7, Risk if s < 4, Neutral otherwise (so s = 4 and
\* s = 7 are Neutral); the output lists only buckets with count > 0, in the
\* fixed order Positive, Neutral, Risk.  Every windowed item is counted
\* once; the Positive and Risk counts are exactly the defined scores above 7
\* and below 4, so every defined score from 4 to 7 is in the Neutral count.
C12_SentimentBuckets ==
    LET scored == SelectSeq(Windowed, HasSentiment)
        above == Count(scored, LAMBDA item : item.sentiment_score[1] > 7)
        below == Count(scored, LAMBDA item : item.sentiment_score[1] < 4)
        between == Count(scored, LAMBDA item : item.sentiment_score[1] \in 4..7)
    IN  /\ ValueOf(filteredSentimentData, "Positive") = above
        /\ ValueOf(filteredSentimentData, "Risk") = below
        /\ ValueOf(filteredSentimentData, "Neutral")
              = between + (Len(Windowed) - Len(scored))
        /\ \A i \in 1..Len(filteredSentimentData) : filteredSentimentData[i].value > 0
        /\ InOrderOf(Names(filteredSentimentData), SentimentOrder)

\* scores 8, 3 and the boundary 7, all in the window: one item per bucket
C12_Witness ==
    /\ Names(filteredSentimentData) = SentimentOrder
    /\ \A i \in 1..3 : filteredSentimentData[i].value = 1
    /\ \E i \in 1..Len(Windowed) : Windowed[i].sentiment_score = Some(7)
    /\ \A i \in 1..Len(Windowed) : HasSentiment(Windowed[i])

(* C13 *)

\* C13: for every set of news items, the RiskDistribution counts sum to the
\* number of input items: every item increments exactly one of the six
\* categories Policy, Competition, Supply Chain, Financial, Other, None.
C13_RiskCountsSumToItems ==
    /\ Sum([i \in 1..Len(riskDistributionData) |-> riskDistributionData[i].count])
          = Len(rawNews)
    /\ \A i \in 1..Len(riskDistributionData) :
          Includes(risks, riskDistributionData[i].name)

\* three items: a listed, an unlisted and an absent risk_type
C13_Witness ==
    /\ Len(rawNews) = 3
    /\ \E i \in 1..3 : rawNews[i].risk_type = Undefined
    /\ \E i \in 1..3 : rawNews[i].risk_type = Some("Cyber")
    /\ \E i \in 1..3 : rawNews[i].risk_type = Some("Policy")
    /\ Sum([i \in 1..Len(riskDistributionData) |-> riskDistributionData[i].count]) = 3

(* C14 *)

\* C14: in RiskDistribution an item with absent risk_type is counted under
\* None, an item whose risk_type is not one of the six listed names is
\* counted under Other, and the output keeps the fixed order Policy,
\* Competition, Supply Chain, Financial, Other, None with zero-count
\* categories dropped.
C14_RiskCategories ==
    LET expected(name) ==
            Count(rawNews, LAMBDA item :
                IF item.risk_type = Undefined THEN name = "None"
                ELSE IF Includes(risks, item.risk_type[1]) THEN name = item.risk_type[1]
                ELSE name = "Other")
    IN  /\ \A i \in 1..Len(risks) :
              CountOf(riskDistributionData, risks[i]) = expected(risks[i])
        /\ \A i \in 1..Len(riskDistributionData) : riskDistributionData[i].count > 0
        /\ InOrderOf(Names(riskDistributionData), risks)

(* C15 *)

ValidUrgency(item) == item.urgency \in {Some("High"), Some("Medium"), Some("Low")}

\* C15: an item whose urgency is absent or is not one of High, Medium, Low
\* is rejected from the CorrelationSet (it yields no point and is never
\* coerced to a weight); every item with a valid urgency yields exactly one
\* point with weight High=3, Medium=2, Low=1 carrying that item's
\* impact_score, title and id.
C15_InvalidUrgencyRejected ==
    LET valid == SelectSeq(rawNews, ValidUrgency)
        weight(u) == CASE u = "High" -> 3 [] u = "Medium" -> 2 [] u = "Low" -> 1
    IN  scatterData =
            [i \in 1..Len(valid) |->
                [impact |-> valid[i].impact_score,
                 urgency |-> weight(valid[i].urgency[1]),
                 title |-> valid[i].title,
                 id |-> valid[i].id]]

(* C16 *)

Entries(seq) == {seq[i] : i \in 1..Len(seq)}

\* C16: IndustryRanking is computed only from items with a defined
\* impact_score: an item with absent impact_score changes neither the sum
\* nor the count of its industry group, and an industry whose items all
\* lack impact_score does not appear in the ranking.  The ranking of
\* rawNews has the entries of the ranking of its items with a defined
\* impact_score.
C16_RankingFromDefinedScores ==
    Entries(industryImpactData) = Entries(ImpactEntries(SelectSeq(rawNews, HasImpact)))

(* C17 *)

\* C17: for every set of news items whose defined impact_scores lie in 0..10
\* and that has at least one defined impact_score (other items may lack it),
\* every IndustryRanking entry has 0 <= mean_score <= 10 and the output
\* sequence is non-increasing in mean_score.  (Means are held in tenths.)
C17_RankingBoundedAndSorted ==
    (/\ \E i \in 1..Len(rawNews) : HasImpact(rawNews[i])
     /\ \A i \in 1..Len(rawNews) :
            HasImpact(rawNews[i]) => rawNews[i].impact_score[1] \in 0..10)
    => /\ \A i \in 1..Len(industryImpactData) :
            /\ ~industryImpactData[i].score.nan
            /\ industryImpactData[i].score.val \in 0..100
       /\ \A i, j \in 1..Len(industryImpactData) :
            i < j => industryImpactData[i].score.val >= industryImpactData[j].score.val

(* C18 *)

\* the group an item belongs to: its industry_tag, "General" when absent
TagOrGeneral(item) ==
    IF item.industry_tag = Undefined THEN "General" ELSE item.industry_tag[1]

\* C18: IndustryRanking groups items by industry_tag (absent tag counted as
\* "General") and reports per group the arithmetic mean of impact_score
\* rounded to one decimal place with halves rounded up, e.g. scores 8 and 6
\* in one group give 7.0 and a mean of exactly x.x5 rounds to the next
\* higher tenth.  (Stated for the groups whose items all have a score.)
C18_MeanRoundedHalfUp ==
    LET tags == {TagOrGeneral(rawNews[i]) : i \in 1..Len(rawNews)}
    IN  /\ {industryImpactData[i].name : i \in 1..Len(industryImpactData)} = tags
        /\ Len(industryImpactData) = Cardinality(tags)
        /\ \A i \in 1..Len(industryImpactData) :
              LET group == SelectSeq(rawNews, LAMBDA item :
                               TagOrGeneral(item) = industryImpactData[i].name)
                  total == Sum([k \in 1..Len(group) |->
                               IF HasImpact(group[k]) THEN group[k].impact_score[1] ELSE 0])
              IN  (\A k \in 1..Len(group) : HasImpact(group[k]))
                  => industryImpactData[i].score
                        = Num(RoundHalfUpTenths(total, Len(group)))

(* C19 *)

\* the place in rawNews where a tag is first encountered
FirstSeen(name) ==
    CHOOSE i \in 1..Len(rawNews) :
        /\ TagOrGeneral(rawNews[i]) = name
        /\ \A k \in 1..(i - 1) : TagOrGeneral(rawNews[k]) # name

\* C19: when two industry groups have equal rounded mean_score, they appear
\* in IndustryRanking in the order in which their tags were first
\* encountered in the input sequence, for every tag string (including tags
\* that look like integers).
C19_TiesInFirstSeenOrder ==
    \A i, j \in 1..Len(industryImpactData) :
        (/\ i < j
         /\ ~industryImpactData[i].score.nan
         /\ ~industryImpactData[j].score.nan
         /\ industryImpactData[i].score.val = industryImpactData[j].score.val)
        => FirstSeen(industryImpactData[i].name) < FirstSeen(industryImpactData[j].name)

(* C20 *)

\* the cutoff the window policy names for a range; an unrecognised range has
\* the Monthly cutoff.  Quarterly is a range of the feed only.
PolicyCutoff(range, view) ==
    CASE range = "Weekly"                     -> now - 7 * 24
      [] range = "Monthly"                    -> SubMonths(now, 1)
      [] range = "Yearly"                     -> SubYears(now, 1)
      [] range = "Quarterly" /\ view = "feed" -> SubMonths(now, 3)
      [] OTHER                                -> SubMonths(now, 1)

\* the ranges the claim speaks of, and one that neither view recognises
PolicyRanges == {"Weekly", "Monthly", "Quarterly", "Yearly", "Hourly"}

\* C20: an item passes the time window iff its timestamp is strictly after
\* the cutoff (a timestamp equal to the cutoff is excluded), where the
\* cutoff is now - 7 days for Weekly, now - 1 month for Monthly, now - 1 year
\* for Yearly and, in the feed view, now - 3 months for Quarterly; an
\* unrecognised range falls back to the Monthly cutoff.  Checked on the
\* filters of both views for every range, and on the views displayed.
C20_StrictlyAfterCutoff ==
    /\ \A range \in PolicyRanges :
          /\ WindowFiltered(rawNews, range, now)
                = SelectSeq(rawNews, LAMBDA item :
                      ParseISO(AnalyticsTimestamp(item)) > PolicyCutoff(range, "analytics"))
          /\ FeedFiltered(news, range, now, "All", 0)
                = SelectSeq(news, LAMBDA item :
                      /\ ParseISO(item.created_at) > PolicyCutoff(range, "feed")
                      /\ HasImpact(item))
    /\ timeRange \in PolicyRanges =>
          Sum([i \in 1..Len(filteredSentimentData) |-> filteredSentimentData[i].value])
              = Count(rawNews, LAMBDA item :
                    ParseISO(AnalyticsTimestamp(item)) > PolicyCutoff(timeRange, "analytics"))
    /\ feedTimeRange \in PolicyRanges =>
          Entries(filteredAndSortedNews)
              = {item \in Entries(news) :
                    /\ ParseISO(item.created_at) > PolicyCutoff(feedTimeRange, "feed")
                    /\ HasImpact(item)}

\* the feed under Weekly at 2024-03-31T12 holds an item stamped exactly seven
\* days earlier and one stamped an hour later: only the later one is shown
C20_Witness ==
    /\ page = "feed"
    /\ now = Now1
    /\ feedTimeRange = "Weekly"
    /\ PoolItem(1) \in Entries(news) /\ PoolItem(2) \in Entries(news)
    /\ PoolItem(1).created_at = AfterWeek /\ PoolItem(2).created_at = AtWeek
    /\ PoolItem(1) \in Entries(filteredAndSortedNews)
    /\ PoolItem(2) \notin Entries(filteredAndSortedNews)

(* C21 *)

\* the ranges both views offer
SharedRanges == {"Daily", "Weekly", "Monthly", "Yearly"}

\* the records held by the mounted view
Held == Entries(rawNews) \cup Entries(news)

\* C21: the range-to-cutoff mapping is a single policy: for the same
\* reference instant and the same item timestamp, the feed view and the
\* analytics view agree on whether the item passes the Daily window (and
\* every other range both views support).
C21_SingleWindowPolicy ==
    \A range \in SharedRanges : \A item \in Held :
        IsAfter(ParseISO(item.created_at), AnalyticsStartDate(range, now))
            <=> IsAfter(ParseISO(item.created_at), FeedStartDate(range, now))

(* C22 *)

\* C22: SentimentMix, RiskDistribution, IndustryRanking and CorrelationSet
\* are all derived from the same time-window-filtered item set: an item
\* that fails the selected time window contributes to none of the four
\* views.
C22_ViewsShareWindow ==
    /\ filteredSentimentData = FilteredSentimentData(rawNews, timeRange, now)
    /\ riskDistributionData = RiskDistributionData(Windowed)
    /\ industryImpactData \in IndustryImpactOutcomes(Windowed)
    /\ scatterData = ScatterData(Windowed)

(* C23 *)

\* the items the feed's filter lets through, in the order fetched
FeedFilteredNow == FeedFiltered(news, feedTimeRange, now, industryFilter, minScore)

\* the key of the selected sort mode
SortKey(item) ==
    IF sortBy = "Latest" THEN ParseISO(item.created_at) ELSE item.impact_score[1]

\* C23: the feed's sorted sequence is a permutation of the filtered set
\* ordered descending by created_at in mode Latest and descending by
\* impact_score in mode Highest Impact, with items of equal key kept in
\* their original relative order; within each emitted group the items
\* appear in that same sorted order.
C23_StableSortedFeed ==
    /\ Len(filteredAndSortedNews) = Len(FeedFilteredNow)
    /\ \A i, j \in 1..Len(filteredAndSortedNews) :
          i < j => SortKey(filteredAndSortedNews[i]) >= SortKey(filteredAndSortedNews[j])
    /\ \A item \in Entries(FeedFilteredNow) :
          SelectSeq(filteredAndSortedNews, LAMBDA x : SortKey(x) = SortKey(item))
              = SelectSeq(FeedFilteredNow, LAMBDA x : SortKey(x) = SortKey(item))
    /\ \A g \in 1..Len(RenderedGroups(groupedNews)) :
          RenderedGroups(groupedNews)[g].items
              = SelectSeq(filteredAndSortedNews, LAMBDA x :
                    x \in Entries(RenderedGroups(groupedNews)[g].items))

\* under Highest Impact the scores 7, 8, 7 come out as 8, 7, 7: the sort
\* moved the 8 forward and kept the two 7s in the order fetched
C23_Witness ==
    /\ sortBy = "Highest Impact"
    /\ FeedFilteredNow = <<PoolItem(3), PoolItem(1), PoolItem(4)>>
    /\ filteredAndSortedNews = <<PoolItem(1), PoolItem(3), PoolItem(4)>>
    /\ PoolItem(3).impact_score = PoolItem(4).impact_score
    /\ Len(groupedNews) > 0

(* C24 *)

\* the label the grouping policy gives a timestamp: the last 7 days end now
PolicyLabel(date) ==
    IF IsToday(date, now) THEN "Today"
    ELSE IF IsYesterday(date, now) THEN "Yesterday"
    ELSE IF date > now - 7 * 24 /\ date <= now THEN "This Week"
    ELSE FormatMonthYear(date)

\* how often an item occurs in a sequence
Occurrences(seq, item) == Cardinality({i \in 1..Len(seq) : seq[i] = item})

\* C24: every filtered item is placed in exactly one group, labelled Today
\* if created_at is in the current calendar day, else Yesterday if in the
\* previous calendar day, else This Week if within the last 7 days, else
\* its month-and-year; no item is lost or duplicated by grouping, and an
\* item dated after now is never labelled This Week unless it lies within
\* the last 7 days.
C24_GroupLabels ==
    /\ \A g \in 1..Len(groupedNews) : \A item \in Entries(groupedNews[g].items) :
          groupedNews[g].name = PolicyLabel(ParseISO(item.created_at))
    /\ \A item \in Entries(filteredAndSortedNews) :
          Sum([g \in 1..Len(groupedNews) |-> Occurrences(groupedNews[g].items, item)])
              = Occurrences(filteredAndSortedNews, item)
    /\ \A g \in 1..Len(groupedNews) :
          Entries(groupedNews[g].items) \subseteq Entries(filteredAndSortedNews)

(* C25 *)

\* the place in the sorted sequence where a label is first seen
FirstWithLabel(label) ==
    CHOOSE i \in 1..Len(filteredAndSortedNews) :
        /\ GroupLabel(ParseISO(filteredAndSortedNews[i].created_at), now) = label
        /\ \A k \in 1..(i - 1) :
              GroupLabel(ParseISO(filteredAndSortedNews[k].created_at), now) # label

\* C25: groups are emitted in the order in which their label is first seen
\* in the single pass over the sorted sequence, so that under Highest
\* Impact sort a less recent group (e.g. This Week) is emitted before Today
\* whenever its top item outranks every Today item.
C25_GroupsInFirstSeenOrder ==
    LET emitted == RenderedGroups(groupedNews)
    IN  /\ {emitted[g].name : g \in 1..Len(emitted)}
              = {GroupLabel(ParseISO(item.created_at), now) :
                    item \in Entries(filteredAndSortedNews)}
        /\ \A g, h \in 1..Len(emitted) :
              g < h => FirstWithLabel(emitted[g].name) < FirstWithLabel(emitted[h].name)
        /\ (/\ sortBy = "Highest Impact"
            /\ \E g, h \in 1..Len(emitted) :
                  /\ emitted[g].name = "This Week"
                  /\ emitted[h].name = "Today"
                  /\ \A item \in Entries(emitted[h].items) :
                        emitted[g].items[1].impact_score[1] > item.impact_score[1])
           => \E g, h \in 1..Len(emitted) :
                  g < h /\ emitted[g].name = "This Week" /\ emitted[h].name = "Today"

\* Highest Impact: a This Week item of score 8 and a Today item of score 5;
\* This Week is emitted first
C25_Witness ==
    /\ sortBy = "Highest Impact"
    /\ Len(RenderedGroups(groupedNews)) = 2
    /\ RenderedGroups(groupedNews)[1].name = "This Week"
    /\ RenderedGroups(groupedNews)[2].name = "Today"
    /\ RenderedGroups(groupedNews)[1].items[1].impact_score = Some(8)
    /\ RenderedGroups(groupedNews)[2].items[1].impact_score = Some(5)

(* C26 *)

RECURSIVE Concatenation(_)
\* the items of the groups, group after group
Concatenation(groups) ==
    IF groups = <<>> THEN <<>>
    ELSE Head(groups).items \o Concatenation(Tail(groups))

\* the groups obtained by feeding the emitted groups' items back in
Regrouped ==
    GroupedNews(
        FilteredAndSortedNews(Concatenation(RenderedGroups(groupedNews)),
                              feedTimeRange, now, industryFilter, minScore, sortBy),
        now)

\* C26: ChronologicalGrouper is idempotent: feeding the concatenation of its
\* output groups back in, with the same sort mode and the same reference
\* instant, yields the same group labels in the same order with the same
\* items in the same order.
C26_GroupingIdempotent ==
    RenderedGroups(Regrouped) = RenderedGroups(groupedNews)

\* three items of equal impact score whose groups interleave in the sorted
\* sequence (February, Yesterday, February): the concatenation of the groups
\* is a different sequence from the one that was grouped
C26_Witness ==
    /\ sortBy = "Highest Impact"
    /\ filteredAndSortedNews = <<PoolItem(3), PoolItem(8), PoolItem(4)>>
    /\ Concatenation(RenderedGroups(groupedNews))
          = <<PoolItem(3), PoolItem(4), PoolItem(8)>>
    /\ Len(groupedNews) = 2

(* C27 *)

\* C27: computing any derived view (sentiment, risk, industry ranking,
\* correlation, sorted and grouped feed) leaves the held raw record
\* collection unchanged: same items, same field values, same order; in
\* particular the feed's in-place sort never reorders the fetched news array.
C27_RawCollectionUnchanged ==
    /\ rawNews \in {<<>>, served}
    /\ news \in {<<>>, served}

\* the feed holds the fetched array and shows all of its items in another
\* order: the sort moved items, the fetched array is as it was served
C27_Witness ==
    /\ page = "feed"
    /\ news = served
    /\ Len(news) >= 2
    /\ Len(filteredAndSortedNews) = Len(news)
    /\ filteredAndSortedNews # news
    /\ groupedNews # <<>>

----------------------------------------------------------------------------
(***************************************************************************)
(* The query client: one cache entry per query key (SpecQueries)           *)
(***************************************************************************)

configVars == <<keywords, interval, newKeyword, config, fetch, remote, posts,
                issued, alerts, hydrated, lastEdit>>

\* the options of the two industry selects: All and the keywords, of which
\* there is one
Industries == {"All", "Electric Vehicle"}

\* the tabs that show the analytics views
AnalyticsTabs == {"analytics", "ranking"}

\* the range buttons pressed in SpecQueries
QueriedRanges == {"Weekly", "Monthly"}

\* the array the backend answers a query key with: a different array for
\* every key, so that the records on display tell which request they
\* answered
Answer(key) ==
    IF key[1] = "news"
    THEN IF key[2] = "All"
         THEN <<PoolItem(1), PoolItem(10), PoolItem(2)>>
         ELSE <<PoolItem(2), PoolItem(1)>>
    ELSE CASE key[2] = "All" /\ key[3] = "Weekly" ->
                <<PoolItem(1), PoolItem(8), PoolItem(10)>>
           [] key[2] = "All" ->
                <<PoolItem(1), PoolItem(2), PoolItem(8), PoolItem(10)>>
           [] key[3] = "Weekly" -> <<PoolItem(1), PoolItem(8)>>
           [] OTHER -> <<PoolItem(1), PoolItem(2), PoolItem(8)>>

\* every query key of the two components
QueryKeys ==
    {AnalyticsKey("analytics", industry, range) :
        industry \in Industries, range \in QueriedRanges}
        \cup {NewsKey(industry) : industry \in Industries}

\* one slot for every request: the data lands under every key
SettledUnderEveryKey(cache, key, data) == [k \in QueryKeys |-> data]

\* the request resolves: its data is stored under the key the request was
\* made for (the queryFn closed over queryIndustry and timeRange)
Settled(cache, key, data) ==
    [k \in DOMAIN cache \cup {key} |-> IF k = key THEN data ELSE cache[k]]

\* useQuery: the data held for the key, or undefined (which the analytics
\* view defaults to { news: [] } and the feed maps to [])
Observed(cache, key) == IF key \in DOMAIN cache THEN cache[key] ELSE <<>>

\* the key of the analytics query changes: its observer shows what the cache
\* holds for the new key and the query is fetched (it is stale at once)
AnalyticsRekeyed(tab, industry, range) ==
    LET key == AnalyticsKey(tab, industry, range)
    IN  /\ key # AnalyticsKey(activeTab, selectedIndustry, timeRange)
        /\ fetching' = fetching \cup {key}
        /\ rawNews' = Observed(queryCache, key)
        /\ AdminMemos(Observed(queryCache, key), range)
        /\ UNCHANGED queryCache

\* setActiveTab(tab.id)
SetActiveTab(tab) ==
    /\ page = "admin"
    /\ tab # activeTab
    /\ activeTab' = tab
    /\ AnalyticsRekeyed(tab, selectedIndustry, timeRange)
    /\ UNCHANGED <<vars, page, now, served, timeRange, feedViewVars>>

\* setSelectedIndustry(e.target.value); on the ranking tab the query key is
\* the same as before and nothing is fetched
SetSelectedIndustry(industry) ==
    /\ page = "admin"
    /\ industry # selectedIndustry
    /\ selectedIndustry' = industry
    /\ IF QueryIndustry(activeTab, industry) = QueryIndustry(activeTab, selectedIndustry)
       THEN UNCHANGED <<fetching, queryCache, rawNews, filteredSentimentData,
                        industryImpactData, riskDistributionData, scatterData>>
       ELSE AnalyticsRekeyed(activeTab, industry, timeRange)
    /\ UNCHANGED <<configVars, page, now, served, activeTab, timeRange,
                   feedViewVars>>

\* setTimeRange(range) with the query client
SetTimeRangeQuery(range) ==
    /\ page = "admin"
    /\ range # timeRange
    /\ timeRange' = range
    /\ AnalyticsRekeyed(activeTab, selectedIndustry, range)
    /\ UNCHANGED <<vars, page, now, served, activeTab, feedViewVars>>

\* a GET /admin/analytics answers, for the key it was sent with
AnalyticsSettled(key) ==
    /\ page = "admin"
    /\ key \in fetching
    /\ fetching' = fetching \ {key}
    /\ LET cache == Settled(queryCache, key, Answer(key))
           data == Observed(cache, AnalyticsKey(activeTab, selectedIndustry, timeRange))
       IN  /\ queryCache' = cache
           /\ rawNews' = data
           /\ AdminMemos(data, timeRange)
    /\ UNCHANGED <<vars, page, now, served, activeTab, timeRange, feedViewVars>>

\* setIndustryFilter(e.target.value)
SetIndustryFilter(industry) ==
    /\ page = "feed"
    /\ industry # industryFilter
    /\ industryFilter' = industry
    /\ fetching' = fetching \cup {NewsKey(industry)}
    /\ LET data == Observed(queryCache, NewsKey(industry))
           run == FeedMemoRun(data, feedTimeRange, now, industry, minScore, sortBy)
       IN  /\ news' = run.news
           /\ filteredAndSortedNews' = run.filtered
           /\ groupedNews' = GroupedNews(run.filtered, now)
    /\ UNCHANGED <<vars, page, now, served, activeTab, queryCache,
                   adminViewVars, feedTimeRange, minScore, sortBy>>

\* a GET /news answers, for the key it was sent with
NewsSettled(key) ==
    /\ page = "feed"
    /\ key \in fetching
    /\ fetching' = fetching \ {key}
    /\ LET cache == Settled(queryCache, key, Answer(key))
       IN  /\ queryCache' = cache
           /\ FeedMemo(Observed(cache, NewsKey(industryFilter)), feedTimeRange, sortBy)
    /\ UNCHANGED <<vars, page, now, served, activeTab, adminViewVars,
                   feedTimeRange, industryFilter, minScore, sortBy>>

InitQueries ==
    /\ Init
    /\ remote = [search_keywords |-> <<>>, scraping_interval_minutes |-> 5]
    /\ page \in {"admin", "feed"}
    /\ now = Now1
    /\ served = <<>>
    /\ AdminViewsInit
    /\ FeedViewsInit
    /\ QueriesInit

NextQueries ==
    \/ \E tab \in AnalyticsTabs : SetActiveTab(tab)
    \/ \E industry \in Industries : SetSelectedIndustry(industry)
    \/ \E range \in QueriedRanges : SetTimeRangeQuery(range)
    \/ \E key \in QueryKeys : AnalyticsSettled(key)
    \/ \E industry \in Industries : SetIndustryFilter(industry)
    \/ \E key \in QueryKeys : NewsSettled(key)
    \/ \E range \in RangeButtons : SetFeedTimeRange(range)

SpecQueries == InitQueries /\ [][NextQueries]_allVars

(* C28 *)

\* the key of the mounted component's query
CurrentKey ==
    IF page = "admin"
    THEN AnalyticsKey(activeTab, selectedIndustry, timeRange)
    ELSE NewsKey(industryFilter)

\* the records the mounted component's views are computed from
Shown == IF page = "admin" THEN rawNews ELSE news

\* C28: last request wins: when the user changes the industry or the time
\* range while an earlier fetch is in flight, the result of the superseded
\* fetch is never used to compute the displayed views; at every moment the
\* views are computed only from records fetched for the currently selected
\* (industry, time range) key, or from the empty set if that fetch has not
\* resolved.
C28_LastRequestWins ==
    /\ Shown \in {<<>>, Answer(CurrentKey)}
    /\ CurrentKey \notin DOMAIN queryCache => Shown = <<>>
    /\ page = "admin" =>
          /\ filteredSentimentData = FilteredSentimentData(rawNews, timeRange, now)
          /\ riskDistributionData = RiskDistributionData(rawNews)
          /\ industryImpactData \in IndustryImpactOutcomes(rawNews)
          /\ scatterData = ScatterData(rawNews)
    /\ page = "feed" =>
          /\ filteredAndSortedNews
                = FilteredAndSortedNews(news, feedTimeRange, now, industryFilter,
                                        minScore, sortBy)
          /\ groupedNews = GroupedNews(filteredAndSortedNews, now)

\* the answer to a superseded request has arrived and is held under its own
\* key, while the request of the selected key is in flight and the views
\* show the empty set
C28_Witness ==
    /\ CurrentKey \in fetching
    /\ CurrentKey \notin DOMAIN queryCache
    /\ \E key \in DOMAIN queryCache : queryCache[key] # <<>>
    /\ Shown = <<>>

----------------------------------------------------------------------------
(***************************************************************************)
(* The reconciler with a remote that answers every request, in the order   *)
(* of issue (SpecOrdered)                                                  *)
(***************************************************************************)

\* the oldest POST in flight succeeds
PostSucceededInOrder ==
    /\ posts # <<>>
    /\ PostSucceeded(1)

NextOrdered ==
    \/ FetchFailed /\ UNCHANGED viewVars
    \/ FetchResolved /\ UNCHANGED viewVars
    \/ RefetchConfig /\ UNCHANGED viewVars
    \/ (\E s \in InputValues : SetNewKeyword(s)) /\ UNCHANGED viewVars
    \/ AddKeyword /\ UNCHANGED viewVars
    \/ (\E kw \in Elems(keywords) : RemoveKeyword(kw)) /\ UNCHANGED viewVars
    \/ (\E v \in SliderValues : ChangeInterval(v)) /\ UNCHANGED viewVars
    \/ UpdateSettings /\ UNCHANGED viewVars
    \/ PostSucceededInOrder /\ UNCHANGED viewVars

SpecOrdered == Mounted /\ [][NextOrdered]_allVars

(* C29 *)

\* C29: convergence: if every persistence request succeeds and the remote
\* applies requests in the order they were issued, then whenever no request
\* is in flight the remote {search_keywords, scraping_interval_minutes}
\* equals the payload of the last issued request, and the remote keywords
\* equal the local keywords.  (The last issued request is the last of the
\* requests in flight before the step that leaves none.)
C29_ConvergesInOrder ==
    [][(issued' > 0 /\ posts' = <<>>)
          => /\ posts # <<>> => remote' = posts[Len(posts)].payload
             /\ remote'.search_keywords = keywords']_allVars

(* C30 *)

\* the place of a group in the chronological order of labels: Today,
\* Yesterday, This Week, then the months, a later month before an earlier one
LabelRank(group) ==
    CASE group.name = "Today" -> 0
      [] group.name = "Yesterday" -> 1
      [] group.name = "This Week" -> 2
      [] OTHER ->
           LET fields == Fields(ParseISO(group.items[1].created_at))
           IN  3 + (9999 - fields[1]) * 12 + (12 - fields[2])

\* C30: under sort mode Latest the emitted groups are chronological: every
\* group is a contiguous run of the sorted sequence and the labels appear in
\* the order Today, Yesterday, This Week, then months from newest to oldest,
\* for every filtered set (including sets that contain items dated after
\* the reference instant).
C30_LatestChronological ==
    sortBy = "Latest" =>
        LET emitted == RenderedGroups(groupedNews)
        IN  /\ Concatenation(emitted) = filteredAndSortedNews
            /\ \A g, h \in 1..Len(emitted) :
                  g < h => LabelRank(emitted[g]) < LabelRank(emitted[h])

====
